---- MODULE Spec2Model ----
(***************************************************************************)
(* A model of sentinel::Deque<T> (lectures/lec18/src/Sentinel.h): a deque  *)
(* kept as a doubly-linked ring closed by a sentinel cell that is embedded *)
(* in the Deque object.  Memory is modelled explicitly: every cell (heap   *)
(* node or embedded sentinel) has a prev and a next pointer, heap nodes    *)
(* have a data element, and the heap knows which nodes are allocated.      *)
(*                                                                         *)
(* Pointers are integers: a positive number n is the heap node n, the      *)
(* negative number -d is the address of the sentinel_ member of the deque  *)
(* object d, and 0 is nullptr.                                             *)
(***************************************************************************)
EXTENDS Integers, Sequences, FiniteSets

\* Bounds of the model.
NumDeques == 2
MaxNodes == 3
MaxVal == 2
MaxInit == 2
MaxOps == 5
NumEnvs == 2
MaxBindings == 3
NumKeys == 2

Deques == 1..NumDeques
Nodes == 1..MaxNodes
Values == 1..MaxVal
Null == 0

Sent(d) == 0 - d
Sentinels == {Sent(d) : d \in Deques}
Cells == Nodes \cup Sentinels

\* Environments (lectures/lec20/src/env.h): handles, heap nodes and keys.
Envs == 1..NumEnvs
EnvNodes == 1..MaxBindings
Keys == 1..NumKeys
NoEnvOp == [op |-> "init", e |-> 0, to |-> 0, key |-> 0, value |-> 0,
            threw |-> FALSE, result |-> 0]

VARIABLES
    next,     \* next[c]: node_base_::next of cell c
    prev,     \* prev[c]: node_base_::prev of cell c
    data,     \* data[n]: node_::data of heap node n
    alloc,    \* the heap nodes that are allocated (new'ed and not deleted)
    size_,    \* size_[d]: Deque::size_ of deque object d
    live,     \* live[d]: deque object d is within its lifetime
    ub,       \* an operation has touched a dead cell (undefined behaviour)
    nops,     \* the number of operations called so far
    last,     \* the operation that produced this state, with its operands
    trip,     \* a push just made, and the pop at the other end that followed it
    copyOf,   \* copyOf[c]: the deque c was copied from and that was not used since
    moved,    \* the last move (from a into b), if only push, pop, clear and
              \* element assignment on one deque were called since
    node_key,   \* node_key[n]: env_ptr::node::key of environment node n
    node_value, \* node_value[n]: env_ptr::node::value
    node_next,  \* node_next[n]: env_ptr::node::next (0 is the null pointer)
    env_head,   \* env_head[e]: env_ptr::head_ of the environment handle e
    env_last    \* the last environment operation, its operands and outcome

dvars == <<next, prev, data, alloc, size_, live, ub, nops, last, trip, copyOf, moved>>
evars == <<node_key, node_value, node_next, env_head, env_last>>
vars == <<dvars, evars>>

\* The memory as one value, so that operations compose as functions.
State == [next |-> next, prev |-> prev, data |-> data, alloc |-> alloc,
          size_ |-> size_, live |-> live, ub |-> ub]

\* A cell that may be accessed: an allocated node, or the sentinel of a
\* deque object within its lifetime.
Valid(m, c) ==
    \/ c \in Nodes /\ c \in m.alloc
    \/ c \in Sentinels /\ m.live[0 - c]

\* Reading a pointer field of a dead cell yields an arbitrary value u.
rd_next(m, c, u) == IF Valid(m, c) THEN m.next[c] ELSE u
rd_prev(m, c, u) == IF Valid(m, c) THEN m.prev[c] ELSE u

\* Touching a dead cell is undefined behaviour.
touch(m, c) == IF Valid(m, c) THEN m ELSE [m EXCEPT !.ub = TRUE]

\* Writing a pointer field; a write into a dead cell is lost.
wr_next(m, c, v) == IF Valid(m, c) THEN [m EXCEPT !.next[c] = v] ELSE [m EXCEPT !.ub = TRUE]
wr_prev(m, c, v) == IF Valid(m, c) THEN [m EXCEPT !.prev[c] = v] ELSE [m EXCEPT !.ub = TRUE]

\* new node_(value): prev and next start as nullptr.
new_node(m, n, v) ==
    [m EXCEPT !.alloc = @ \cup {n}, !.data[n] = v, !.next[n] = Null, !.prev[n] = Null]

\* delete p: only an allocated heap node can be deleted.
delete_node(m, c) ==
    IF c \in Nodes /\ c \in m.alloc
    THEN [m EXCEPT !.alloc = @ \ {c}, !.data[c] = Null, !.next[c] = Null, !.prev[c] = Null]
    ELSE [m EXCEPT !.ub = TRUE]

empty(m, d) == m.size_[d] = 0
size(m, d) == m.size_[d]
head_(m, d) == m.next[Sent(d)]
tail_(m, d) == m.prev[Sent(d)]

set_empty_(m, d) ==
    [m EXCEPT !.size_[d] = 0, !.next[Sent(d)] = Sent(d), !.prev[Sent(d)] = Sent(d)]

move_from_(m, d, o) ==
    IF empty(m, o)
    THEN set_empty_(m, d)
    ELSE set_empty_([m EXCEPT !.next[Sent(d)] = m.next[Sent(o)],
                              !.prev[Sent(d)] = m.prev[Sent(o)],
                              !.size_[d] = m.size_[o]], o)

push_front_(m, d, n) ==
    LET s == Sent(d)
        m1 == [m EXCEPT !.next[n] = m.next[s], !.prev[n] = s]
        m2 == wr_prev(m1, m1.next[n], n)
        m3 == wr_next(m2, m2.prev[n], n)
    IN  [m3 EXCEPT !.size_[d] = @ + 1]

push_back_(m, d, n) ==
    LET s == Sent(d)
        m1 == [m EXCEPT !.prev[n] = m.prev[s], !.next[n] = s]
        m2 == wr_prev(m1, m1.next[n], n)
        m3 == wr_next(m2, m2.prev[n], n)
    IN  [m3 EXCEPT !.size_[d] = @ + 1]

push_front(m, d, n, v) == push_front_(new_node(m, n, v), d, n)
push_back(m, d, n, v) == push_back_(new_node(m, n, v), d, n)

\* The new-expression throws (operator new fails, or the element's
\* constructor throws and the storage is released): push_front_ or
\* push_back_ is never entered and no cell has been written.
push_front_throws(m, d) == m
\* A push_back that counts the element before it creates the node.
push_back_counts_first(m, d) == [m EXCEPT !.size_[d] = @ + 1]
push_back_throws(m, d) == m

\* pop_front without the statement new_head->prev = &sentinel_.
pop_front_unlinked(m, d, u) ==
    LET s == Sent(d)
        head == head_(m, d)
        new_head == rd_next(m, head, u)
        m1 == delete_node(touch(m, head), head)
        m2 == [m1 EXCEPT !.next[s] = new_head]
    IN  [m2 EXCEPT !.size_[d] = @ - 1]

pop_front(m, d, u) ==
    LET s == Sent(d)
        head == head_(m, d)
        new_head == rd_next(m, head, u)
        m1 == delete_node(touch(m, head), head)
        m2 == [m1 EXCEPT !.next[s] = new_head]
        m3 == wr_prev(m2, new_head, s)
    IN  [m3 EXCEPT !.size_[d] = @ - 1]

pop_back(m, d, u) ==
    LET s == Sent(d)
        tail == tail_(m, d)
        new_tail == rd_prev(m, tail, u)
        m1 == delete_node(touch(m, tail), tail)
        m2 == [m1 EXCEPT !.prev[s] = new_tail]
        m3 == wr_next(m2, new_tail, s)
    IN  [m3 EXCEPT !.size_[d] = @ - 1]

RECURSIVE clear(_, _, _)
clear(m, d, u) == IF empty(m, d) THEN m ELSE clear(pop_front(m, d, u), d, u)

swap(m, d, o) ==
    IF empty(m, d) THEN move_from_(m, d, o)
    ELSE IF empty(m, o) THEN move_from_(m, o, d)
    ELSE LET sd == Sent(d)
             so == Sent(o)
             m1 == [m EXCEPT !.next[sd] = m.next[so], !.next[so] = m.next[sd],
                             !.prev[sd] = m.prev[so], !.prev[so] = m.prev[sd],
                             !.size_[d] = m.size_[o], !.size_[o] = m.size_[d]]
             m2 == wr_prev(m1, m1.next[sd], sd)
             m3 == wr_next(m2, m2.prev[sd], sd)
             m4 == wr_prev(m3, m3.next[so], so)
             m5 == wr_next(m4, m4.prev[so], so)
         IN  m5

\* Iterators: begin() is at sentinel_.next, end() at the sentinel itself.
begin(m, d) == m.next[Sent(d)]
end(m, d) == Sent(d)
iter_inc(m, it) == m.next[it]
\* operator-- that moves to next instead of prev.
iter_dec_forward(m, it) == m.next[it]
iter_dec(m, it) == m.prev[it]

\* operator*: the data of the node the iterator is at.  A cell that is not
\* an allocated node has no element: the read yields the arbitrary value g.
deref(m, it, g) == IF it \in Nodes /\ it \in m.alloc THEN m.data[it] ELSE g
front(m, d, g) == deref(m, head_(m, d), g)
back(m, d, g) == deref(m, tail_(m, d), g)

\* The nodes operator new may return.  Free nodes that no pointer of a
\* valid cell refers to cannot be told apart, so the lowest of them stands
\* for all; a free node that a dangling pointer refers to is a choice of
\* its own.
Free(m) == Nodes \ m.alloc
Referenced(m, n) == \E c \in Cells : Valid(m, c) /\ (m.next[c] = n \/ m.prev[c] = n)
Fresh(m) == {n \in Free(m) : ~Referenced(m, n)}
NewNodes(m) ==
    {n \in Free(m) : Referenced(m, n)} \cup {n \in Fresh(m) : \A k \in Fresh(m) : n <= k}

\* for (const auto& elt : other) push_back(elt);
\* it is the iterator; g.c and g.v are the arbitrary pointer and element
\* read from dead cells.  Every operator new may throw.  The result is the
\* set of outcomes, each saying whether operator new threw.
RECURSIVE copy_loop(_, _, _, _, _)
copy_loop(m, d, o, it, g) ==
    IF it = end(m, o) THEN {[m |-> m, threw |-> FALSE]}
    ELSE LET isnode == it \in Nodes /\ it \in m.alloc
             m0 == IF isnode THEN m ELSE [m EXCEPT !.ub = TRUE]
             elt == deref(m, it, g.v)
         IN  {[m |-> m0, threw |-> TRUE]} \cup
             UNION {LET m1 == push_back(m0, d, n, elt)
                    IN  copy_loop(touch(m1, it), d, o, rd_next(m1, it, g.c), g)
                    : n \in NewNodes(m0)}

\* Deque(std::initializer_list<T>): push_back each element in order.
RECURSIVE list_loop(_, _, _)
list_loop(m, d, vs) ==
    IF vs = << >> THEN {[m |-> m, threw |-> FALSE]}
    ELSE {[m |-> m, threw |-> TRUE]} \cup
         UNION {list_loop(push_back(m, d, n, Head(vs)), d, Tail(vs)) : n \in NewNodes(m)}

\* ~Deque(): clear(), then the object (and its embedded sentinel) is gone.
destroy(m, d, u) ==
    [clear(m, d, u) EXCEPT !.live[d] = FALSE, !.size_[d] = 0,
                           !.next[Sent(d)] = Null, !.prev[Sent(d)] = Null]

\* The object d comes to life through the delegated Deque().
born(m, d) == set_empty_([m EXCEPT !.live[d] = TRUE], d)

\* A constructor body that throws after the delegated constructor has
\* completed runs the destructor.
ctor_exit(r, d, u) ==
    IF r.threw THEN [m |-> destroy(r.m, d, u), threw |-> TRUE] ELSE r

copy_construct(m, d, o, g) ==
    LET m0 == born(m, d)
    IN  {ctor_exit(r, d, g.c) : r \in copy_loop(m0, d, o, begin(m0, o), g)}

list_construct(m, d, vs, u) ==
    {ctor_exit(r, d, u) : r \in list_loop(born(m, d), d, vs)}

copy_assign(m, d, o, g) ==
    LET m0 == clear(m, d, g.c)
    IN  copy_loop(m0, d, o, begin(m0, o), g)

move_construct(m, d, o) == move_from_([m EXCEPT !.live[d] = TRUE], d, o)

move_assign(m, d, o, u) == move_from_(clear(m, d, u), d, o)

\* front() = v and back() = v: assignment through the returned reference.
assign_cell(m, c, v) ==
    IF c \in Nodes /\ c \in m.alloc THEN [m EXCEPT !.data[c] = v] ELSE [m EXCEPT !.ub = TRUE]

\* The forward traversal for (it = begin(); it != end(); ++it) *it: the
\* elements met, and whether the traversal stayed on allocated nodes and
\* came back to the deque's own sentinel.
BadWalk == [ok |-> FALSE, elems |-> << >>]
RECURSIVE walk(_, _, _, _)
walk(m, d, it, fuel) ==
    IF it = end(m, d) THEN [ok |-> TRUE, elems |-> << >>]
    ELSE IF fuel = 0 \/ ~(it \in Nodes /\ it \in m.alloc) THEN BadWalk
    ELSE LET r == walk(m, d, iter_inc(m, it), fuel - 1)
         IN  IF r.ok THEN [ok |-> TRUE, elems |-> <<deref(m, it, Null)>> \o r.elems]
             ELSE BadWalk
Traverse(m, d) == walk(m, d, begin(m, d), MaxNodes)

\* The sentinel is linked to itself.
SelfLinked(m, d) == m.next[Sent(d)] = Sent(d) /\ m.prev[Sent(d)] = Sent(d)

\* An operation's arbitrary values matter only if the operation touches a
\* dead cell; otherwise one value stands for all.
G0 == [c |-> Sent(1), v |-> 1]
Oracles(r) == IF r.ub THEN Cells ELSE {G0.c}
Garbage(rs) == IF \E r \in rs : r.m.ub THEN [c : Cells, v : Values] ELSE {G0}
InitLists == UNION {[1..n -> Values] : n \in 0..MaxInit}

NoOp == [op |-> "init", d |-> 0, o |-> 0, threw |-> FALSE]
Op(name, d, o, threw) == [op |-> name, d |-> d, o |-> o, threw |-> threw]

NoTrip == [stage |-> 0, end |-> "none", d |-> 0, v |-> 0, before |-> BadWalk,
           bsize |-> 0, intact |-> FALSE, popped |-> 0]
\* A push of v at one end of d has been made.
Pushed(e, d, v) ==
    [stage |-> 1, end |-> e, d |-> d, v |-> v, before |-> Traverse(State, d),
     bsize |-> size(State, d), intact |-> empty(State, d) /\ SelfLinked(State, d),
     popped |-> 0]
\* A pop at the end e of d removes the element x: it completes the round
\* trip if the push just before was at the other end of d.
Popped(e, d, x) ==
    IF trip.stage = 1 /\ trip.d = d /\ trip.end # e
    THEN [trip EXCEPT !.stage = 2, !.popped = x]
    ELSE NoTrip

NoMove == [a |-> 0, b |-> 0]
\* The contents of a were moved into b.
Moved(a, b) == IF a = b THEN NoMove ELSE [a |-> a, b |-> b]

\* The copy relation after an operation on the deques ds.
Used(ds) == [c \in Deques |-> IF c \in ds \/ copyOf[c] \in ds THEN 0 ELSE copyOf[c]]

Apply(r) ==
    /\ UNCHANGED evars
    /\ nops < MaxOps
    /\ nops' = nops + 1
    /\ next' = r.next
    /\ prev' = r.prev
    /\ data' = r.data
    /\ alloc' = r.alloc
    /\ size_' = r.size_
    /\ live' = r.live
    /\ ub' = r.ub

Init ==
    /\ next = [c \in Cells |-> Null]
    /\ prev = [c \in Cells |-> Null]
    /\ data = [n \in Nodes |-> Null]
    /\ alloc = {}
    /\ size_ = [d \in Deques |-> 0]
    /\ live = [d \in Deques |-> FALSE]
    /\ ub = FALSE
    /\ nops = 0
    /\ last = NoOp
    /\ trip = NoTrip
    /\ copyOf = [d \in Deques |-> 0]
    /\ moved = NoMove
    /\ node_key = [n \in EnvNodes |-> 0]
    /\ node_value = [n \in EnvNodes |-> 0]
    /\ node_next = [n \in EnvNodes |-> 0]
    /\ env_head = [e \in Envs |-> 0]
    /\ env_last = NoEnvOp

\* Deque()
Construct(d) ==
    /\ ~ub /\ ~live[d]
    /\ Apply(born(State, d))
    /\ last' = Op("Deque", d, 0, FALSE)
    /\ trip' = NoTrip
    /\ copyOf' = Used({d})
    /\ moved' = NoMove

\* Deque(std::initializer_list<T>)
ConstructList(d, vs) ==
    /\ ~ub /\ ~live[d]
    /\ \E r \in list_construct(State, d, vs, G0.c) :
          /\ Apply(r.m)
          /\ last' = Op("Deque_list", d, 0, r.threw)
    /\ trip' = NoTrip
    /\ copyOf' = Used({d})
    /\ moved' = NoMove

\* Deque(const Deque&)
CopyConstruct(d, o) ==
    /\ ~ub /\ ~live[d] /\ live[o]
    /\ LET rs0 == copy_construct(State, d, o, G0)
       IN
       \E g \in Garbage(rs0) :
       \E r \in (IF g = G0 THEN rs0 ELSE copy_construct(State, d, o, g)) :
          /\ Apply(r.m)
          /\ last' = Op("Deque_copy", d, o, r.threw)
          /\ copyOf' = [Used({d, o}) EXCEPT ![d] = IF r.threw THEN 0 ELSE o]
    /\ trip' = NoTrip
    /\ moved' = NoMove

\* operator=(const Deque&)
CopyAssign(d, o) ==
    /\ ~ub /\ live[d] /\ live[o]
    /\ LET rs0 == copy_assign(State, d, o, G0)
       IN
       \E g \in Garbage(rs0) :
       \E r \in (IF g = G0 THEN rs0 ELSE copy_assign(State, d, o, g)) :
          /\ Apply(r.m)
          /\ last' = Op("copy_assign", d, o, r.threw)
          /\ copyOf' = [Used({d, o}) EXCEPT ![d] = IF r.threw \/ d = o THEN 0 ELSE o]
    /\ trip' = NoTrip
    /\ moved' = NoMove

\* Deque(Deque&&)
MoveConstruct(d, o) ==
    /\ ~ub /\ ~live[d] /\ live[o]
    /\ Apply(move_construct(State, d, o))
    /\ last' = Op("Deque_move", d, o, FALSE)
    /\ trip' = NoTrip
    /\ copyOf' = Used({d, o})
    /\ moved' = Moved(o, d)

\* operator=(Deque&&)
MoveAssign(d, o) ==
    /\ ~ub /\ live[d] /\ live[o]
    /\ LET r0 == move_assign(State, d, o, G0.c)
       IN  \E u \in Oracles(r0) :
              Apply(IF u = G0.c THEN r0 ELSE move_assign(State, d, o, u))
    /\ last' = Op("move_assign", d, o, FALSE)
    /\ trip' = NoTrip
    /\ copyOf' = Used({d, o})
    /\ moved' = Moved(o, d)

\* push_front(const T&), push_front(T&&), emplace_front: operator new
\* either yields a node to attach or throws, and then nothing has changed.
PushFront(d, v) ==
    /\ ~ub /\ live[d]
    /\ \/ /\ \E n \in NewNodes(State) : Apply(push_front(State, d, n, v))
          /\ last' = Op("push_front", d, 0, FALSE)
          /\ trip' = Pushed("front", d, v)
       \/ /\ Apply(push_front_throws(State, d))
          /\ last' = Op("push_front", d, 0, TRUE)
          /\ trip' = NoTrip
    /\ copyOf' = Used({d})
    /\ moved' = moved

\* push_back(const T&), push_back(T&&), emplace_back
PushBack(d, v) ==
    /\ ~ub /\ live[d]
    /\ \/ /\ \E n \in NewNodes(State) : Apply(push_back(State, d, n, v))
          /\ last' = Op("push_back", d, 0, FALSE)
          /\ trip' = Pushed("back", d, v)
       \/ /\ Apply(push_back_throws(State, d))
          /\ last' = Op("push_back", d, 0, TRUE)
          /\ trip' = NoTrip
    /\ copyOf' = Used({d})
    /\ moved' = moved

\* pop_front() on a deque that is not empty()
PopFront(d) ==
    /\ ~ub /\ live[d] /\ ~empty(State, d)
    /\ LET r0 == pop_front(State, d, G0.c)
       IN  \E u \in Oracles(r0) :
              Apply(IF u = G0.c THEN r0 ELSE pop_front(State, d, u))
    /\ last' = Op("pop_front", d, 0, FALSE)
    /\ trip' = Popped("front", d, front(State, d, Null))
    /\ copyOf' = Used({d})
    /\ moved' = moved

\* pop_back() on a deque that is not empty()
PopBack(d) ==
    /\ ~ub /\ live[d] /\ ~empty(State, d)
    /\ LET r0 == pop_back(State, d, G0.c)
       IN  \E u \in Oracles(r0) :
              Apply(IF u = G0.c THEN r0 ELSE pop_back(State, d, u))
    /\ last' = Op("pop_back", d, 0, FALSE)
    /\ trip' = Popped("back", d, back(State, d, Null))
    /\ copyOf' = Used({d})
    /\ moved' = moved

\* clear()
Clear(d) ==
    /\ ~ub /\ live[d]
    /\ LET r0 == clear(State, d, G0.c)
       IN  \E u \in Oracles(r0) :
              Apply(IF u = G0.c THEN r0 ELSE clear(State, d, u))
    /\ last' = Op("clear", d, 0, FALSE)
    /\ trip' = NoTrip
    /\ copyOf' = Used({d})
    /\ moved' = moved

\* swap(Deque&), std::swap(Deque&, Deque&)
Swap(d, o) ==
    /\ ~ub /\ live[d] /\ live[o]
    /\ Apply(swap(State, d, o))
    /\ last' = Op("swap", d, o, FALSE)
    /\ trip' = NoTrip
    /\ copyOf' = Used({d, o})
    /\ moved' = IF empty(State, d) THEN Moved(o, d)
                ELSE IF empty(State, o) THEN Moved(d, o) ELSE NoMove

\* front() = v on a deque that is not empty()
AssignFront(d, v) ==
    /\ ~ub /\ live[d] /\ ~empty(State, d)
    /\ Apply(assign_cell(State, head_(State, d), v))
    /\ last' = Op("front", d, 0, FALSE)
    /\ trip' = NoTrip
    /\ copyOf' = Used({d})
    /\ moved' = moved

\* back() = v on a deque that is not empty()
AssignBack(d, v) ==
    /\ ~ub /\ live[d] /\ ~empty(State, d)
    /\ Apply(assign_cell(State, tail_(State, d), v))
    /\ last' = Op("back", d, 0, FALSE)
    /\ trip' = NoTrip
    /\ copyOf' = Used({d})
    /\ moved' = moved

\* ~Deque()
Destroy(d) ==
    /\ ~ub /\ live[d]
    /\ LET r0 == destroy(State, d, G0.c)
       IN  \E u \in Oracles(r0) :
              Apply(IF u = G0.c THEN r0 ELSE destroy(State, d, u))
    /\ last' = Op("destroy", d, 0, FALSE)
    /\ trip' = NoTrip
    /\ copyOf' = Used({d})
    /\ moved' = NoMove

Next ==
    \/ \E d \in Deques : Construct(d)
    \/ \E d \in Deques, vs \in InitLists : ConstructList(d, vs)
    \/ \E d, o \in Deques : CopyConstruct(d, o)
    \/ \E d, o \in Deques : CopyAssign(d, o)
    \/ \E d, o \in Deques : MoveConstruct(d, o)
    \/ \E d, o \in Deques : MoveAssign(d, o)
    \/ \E d \in Deques, v \in Values : PushFront(d, v)
    \/ \E d \in Deques, v \in Values : PushBack(d, v)
    \/ \E d \in Deques : PopFront(d)
    \/ \E d \in Deques : PopBack(d)
    \/ \E d \in Deques : Clear(d)
    \/ \E d, o \in Deques : Swap(d, o)
    \/ \E d \in Deques, v \in Values : AssignFront(d, v)
    \/ \E d \in Deques, v \in Values : AssignBack(d, v)
    \/ \E d \in Deques : Destroy(d)

Spec == Init /\ [][Next]_vars

\* ---- env_ptr<V> (lectures/lec20/src/env.h) ----

\* The environment heap and the handles as one value.
Env == [key |-> node_key, value |-> node_value, next |-> node_next,
        head |-> env_head]

\* The nodes of the chain that starts at curr.
RECURSIVE chain(_, _)
chain(m, curr) == IF curr = 0 THEN {} ELSE {curr} \cup chain(m, m.next[curr])

\* shared_ptr: a node lives as long as a handle or a living node points to
\* it; the storage of the others is released.
Held(m) == UNION {chain(m, m.head[e]) : e \in Envs}
release(m) ==
    [m EXCEPT !.key = [n \in EnvNodes |-> IF n \in Held(m) THEN m.key[n] ELSE 0],
              !.value = [n \in EnvNodes |-> IF n \in Held(m) THEN m.value[n] ELSE 0],
              !.next = [n \in EnvNodes |-> IF n \in Held(m) THEN m.next[n] ELSE 0]]
\* No pointer to released storage is kept, so the free nodes cannot be told
\* apart and the lowest stands for all.
FreeEnvNodes(m) == EnvNodes \ Held(m)
NewEnvNodes(m) == {n \in FreeEnvNodes(m) : \A k \in FreeEnvNodes(m) : n <= k}

\* A lookup that answers a missing key with a default value.
RECURSIVE lookup_default(_, _, _)
lookup_default(m, curr, key) ==
    IF curr = 0 THEN [threw |-> FALSE, value |-> 0]
    ELSE IF m.key[curr] = key THEN [threw |-> FALSE, value |-> m.value[curr]]
    ELSE lookup_default(m, m.next[curr], key)

\* lookup: the loop from curr; throws binding_not_found at the end.
RECURSIVE lookup(_, _, _)
lookup(m, curr, key) ==
    IF curr = 0 THEN [threw |-> TRUE, value |-> 0]
    ELSE IF m.key[curr] = key THEN [threw |-> FALSE, value |-> m.value[curr]]
    ELSE lookup(m, m.next[curr], key)

\* An update that goes on to the older bindings of the key.
RECURSIVE update_all(_, _, _, _)
update_all(m, curr, key, value) ==
    IF curr = 0 THEN [m |-> m, threw |-> TRUE]
    ELSE LET r == update_all(m, m.next[curr], key, value)
         IN  IF m.key[curr] = key
             THEN [m |-> [r.m EXCEPT !.value[curr] = value], threw |-> FALSE]
             ELSE r

\* update: the loop from curr; throws binding_not_found at the end.
RECURSIVE update(_, _, _, _)
update(m, curr, key, value) ==
    IF curr = 0 THEN [m |-> m, threw |-> TRUE]
    ELSE IF m.key[curr] = key
    THEN [m |-> [m EXCEPT !.value[curr] = value], threw |-> FALSE]
    ELSE update(m, m.next[curr], key, value)

\* make_shared<node>(key, value, next) in the storage n.
make_node(m, n, key, value, nx) ==
    [m EXCEPT !.key[n] = key, !.value[n] = value, !.next[n] = nx]

\* An extend that does not link the new node to the chain.
extend_unlinked(m, e, n, key, value) == make_node(m, n, key, value, 0)
\* extend: a new node in front of the chain of e; n is the head_ of the
\* environment returned.
extend(m, e, n, key, value) == make_node(m, n, key, value, m.head[e])

\* The handle to receives the environment whose head_ is h and gives up
\* the one it held.
assign_env(m, to, h) == release([m EXCEPT !.head[to] = h])

EnvOp(name, e, to, key, value, threw, result) ==
    [op |-> name, e |-> e, to |-> to, key |-> key, value |-> value,
     threw |-> threw, result |-> result]

ApplyEnv(m) ==
    /\ node_key' = m.key
    /\ node_value' = m.value
    /\ node_next' = m.next
    /\ env_head' = m.head
    /\ UNCHANGED dvars

\* to = env_ptr()
EnvEmpty(to) ==
    /\ ApplyEnv(assign_env(Env, to, 0))
    /\ env_last' = EnvOp("env_ptr", 0, to, 0, 0, FALSE, 0)

\* to = e
EnvCopy(to, e) ==
    /\ ApplyEnv(assign_env(Env, to, Env.head[e]))
    /\ env_last' = EnvOp("copy", e, to, 0, 0, FALSE, 0)

\* to = e.extend(key, value); make_shared may throw bad_alloc, and then
\* nothing is assigned.
EnvExtend(e, to, key, value) ==
    \/ \E n \in NewEnvNodes(Env) :
          /\ ApplyEnv(assign_env(extend(Env, e, n, key, value), to, n))
          /\ env_last' = EnvOp("extend", e, to, key, value, FALSE, 0)
    \/ /\ ApplyEnv(Env)
       /\ env_last' = EnvOp("extend", e, to, 0, 0, TRUE, 0)

\* e.lookup(key)
EnvLookup(e, key) ==
    LET r == lookup(Env, Env.head[e], key)
    IN  /\ ApplyEnv(Env)
        /\ env_last' = EnvOp("lookup", e, 0, key, 0, r.threw, r.value)

\* e.update(key, value)
EnvUpdate(e, key, value) ==
    LET r == update(Env, Env.head[e], key, value)
    IN  /\ ApplyEnv(r.m)
        /\ env_last' = EnvOp("update", e, 0, key, value, r.threw, 0)

NextEnv ==
    \/ \E to \in Envs : EnvEmpty(to)
    \/ \E to, e \in Envs : EnvCopy(to, e)
    \/ \E e, to \in Envs, key \in Keys, value \in Values : EnvExtend(e, to, key, value)
    \/ \E e \in Envs, key \in Keys : EnvLookup(e, key)
    \/ \E e \in Envs, key \in Keys, value \in Values : EnvUpdate(e, key, value)

SpecEnv == Init /\ [][NextEnv]_vars

\* The cells reached from the sentinel of d by following next through
\* valid cells: the sentinel itself and the nodes of the ring.
RECURSIVE reach(_, _, _, _)
reach(m, d, it, seen) ==
    IF it \in seen \/ ~Valid(m, it) THEN seen
    ELSE reach(m, d, m.next[it], seen \cup {it})
RingCells(m, d) == reach(m, d, Sent(d), {})

LiveDeques == {d \in Deques : live[d]}

\* C1: in every live deque, following next from the sentinel comes back to
\* that sentinel after exactly size() nodes: the forward traversal from
\* begin() reaches end() and yields size() elements.
C1_RingLengthIsSize ==
    \A d \in LiveDeques :
        /\ Traverse(State, d).ok
        /\ Len(Traverse(State, d).elems) = size(State, d)

\* C2: in every live deque's ring prev and next are mutual inverses, for
\* each node and for the deque's own sentinel.
C2_PrevNextInverse ==
    \A d \in LiveDeques : \A c \in RingCells(State, d) :
        /\ Valid(State, next[c]) /\ prev[next[c]] = c
        /\ Valid(State, prev[c]) /\ next[prev[c]] = c

\* C10: whenever size() is 0 the sentinel's prev and next are the sentinel
\* itself, so that begin() = end().
C10_EmptyIsSelfLinked ==
    \A d \in LiveDeques :
        empty(State, d) => SelfLinked(State, d) /\ begin(State, d) = end(State, d)

\* The steps that transfer a ring: a move construction or move assignment
\* of d from another deque o, and a swap of two distinct deques.
IsMove(l) == l.op \in {"Deque_move", "move_assign"} /\ l.d # l.o
IsSwap(l) == l.op = "swap" /\ l.d # l.o

\* The neighbours of the sentinel of d point back at it.
OwnsNeighbours(m, d) ==
    /\ Valid(m, m.next[Sent(d)]) /\ m.prev[m.next[Sent(d)]] = Sent(d)
    /\ Valid(m, m.prev[Sent(d)]) /\ m.next[m.prev[Sent(d)]] = Sent(d)

\* C3: after b = std::move(a) or Deque b = std::move(a), a and b distinct,
\* a is empty and the forward traversal of b yields the elements a held
\* before, in the same order, with b's size a's former size.
C3_MoveTransfersContents ==
    [][(IsMove(last') /\ Traverse(State, last'.o).ok) =>
          /\ empty(State', last'.o)
          /\ Traverse(State', last'.d) = Traverse(State, last'.o)
          /\ size(State', last'.d) = size(State, last'.o)]_vars

\* C4: after a.swap(b), a and b distinct, each traversal yields the other's
\* former elements in order, the sizes are exchanged, and each sentinel's
\* neighbours point back at the sentinel of the deque that now owns them.
C4_SwapExchangesContents ==
    [][(IsSwap(last') /\ Traverse(State, last'.d).ok /\ Traverse(State, last'.o).ok) =>
          /\ Traverse(State', last'.d) = Traverse(State, last'.o)
          /\ Traverse(State', last'.o) = Traverse(State, last'.d)
          /\ size(State', last'.d) = size(State, last'.o)
          /\ size(State', last'.o) = size(State, last'.d)
          /\ OwnsNeighbours(State', last'.d)
          /\ OwnsNeighbours(State', last'.o)]_vars

\* The abstract contents of a deque: what the traversal yields, and size().
Contents(m, d) == [walk |-> Traverse(m, d), size |-> size(m, d)]

\* C5: swap is its own inverse: two swaps of a and b in a row restore the
\* element sequence and the size of both.
C5_SwapTwiceRestores ==
    \A a, b \in LiveDeques :
        (~ub /\ a # b /\ Traverse(State, a).ok /\ Traverse(State, b).ok) =>
            LET m2 == swap(swap(State, a, b), a, b)
            IN  /\ Contents(m2, a) = Contents(State, a)
                /\ Contents(m2, b) = Contents(State, b)

\* The outcomes of pushing the elements vs in turn at one end of d, every
\* operator new succeeding.
RECURSIVE push_all(_, _, _, _)
push_all(m, d, vs, e) ==
    IF vs = << >> THEN {m}
    ELSE UNION {push_all(IF e = "back" THEN push_back(m, d, n, Head(vs))
                                       ELSE push_front(m, d, n, Head(vs)),
                         d, Tail(vs), e) : n \in NewNodes(m)}

RECURSIVE Reverse(_)
Reverse(vs) == IF vs = << >> THEN << >> ELSE Reverse(Tail(vs)) \o <<Head(vs)>>

\* C6: starting from an empty deque, after a sequence of push_back calls
\* the traversal yields the pushed elements in call order, and after a
\* sequence of push_front calls it yields them in reverse call order.
C6_PushOrder ==
    \A d \in LiveDeques : empty(State, d) =>
        \A vs \in InitLists :
            /\ \A m \in push_all(State, d, vs, "back") :
                   Traverse(m, d) = [ok |-> TRUE, elems |-> vs]
            /\ \A m \in push_all(State, d, vs, "front") :
                   Traverse(m, d) = [ok |-> TRUE, elems |-> Reverse(vs)]

\* The round trip is complete: the push and then the pop at the other end.
TripDone == trip.stage = 2

\* The deque of the round trip is as it was before the push, and the pop
\* removed the element pushed.
TripRestored ==
    /\ Traverse(State, trip.d) = trip.before
    /\ size(State, trip.d) = trip.bsize
    /\ trip.popped = trip.v

\* C7 as stated: for a deque in any state, push_back(x); pop_front()
\* returns the deque to its prior state and removes x, and so does
\* push_front(x); pop_back().
C7_RoundTripAnyState == TripDone => TripRestored

\* C7 as amended: for a deque that is empty with its sentinel linked to
\* itself, push_back(x); pop_front() returns the deque to that state and
\* removes x, and so does push_front(x); pop_back().
C7_RoundTripFromEmpty ==
    (TripDone /\ trip.intact) =>
        /\ TripRestored
        /\ empty(State, trip.d) /\ SelfLinked(State, trip.d)

C7_Witness ==
    /\ TripDone /\ trip.intact /\ trip.end = "back"
    /\ last.op = "pop_front" /\ ~ub

\* C8: for every non-empty deque, front() is the element at begin() and
\* back() is the element reached by decrementing end() once.  g is what a
\* read of a cell that holds no element yields.
C8_FrontBackAtEnds ==
    \A d \in LiveDeques : ~empty(State, d) =>
        \A g \in Values \cup {Null} :
            /\ front(State, d, g) = deref(State, begin(State, d), g)
            /\ back(State, d, g) = deref(State, iter_dec(State, end(State, d)), g)

C8_Witness ==
    \E d \in LiveDeques :
        /\ IsMove(last) /\ last.d = d /\ size(State, d) = 2 /\ ~ub
        /\ front(State, d, Null) # back(State, d, Null)
        /\ front(State, d, Null) \in Values /\ back(State, d, Null) \in Values

\* What a deque is made of: its size, its sentinel's links, and the links
\* and elements of the nodes of its ring.
View(m, d) ==
    [size |-> size(m, d),
     walk |-> Traverse(m, d),
     cells |-> [c \in RingCells(m, d) |->
                   <<m.next[c], m.prev[c], deref(m, c, Null)>>]]

\* C9: after c is copied from a (by construction or assignment) no node is
\* shared between them, and no later operation on c alone (push, pop,
\* clear, element assignment, move from c, swap of c with a third deque)
\* changes a's element sequence, size or ring links.
C9_CopyIsIndependent ==
    [][\A c \in Deques :
          LET a == copyOf[c]
          IN  /\ (~ub' /\ a # 0 /\ copyOf'[c] = a /\ c \in {last'.d, last'.o}) =>
                     View(State', a) = View(State, a)
              /\ (~ub' /\ copyOf'[c] # 0 /\ last'.op \in {"Deque_copy", "copy_assign"}
                                /\ last'.d = c) =>
                     LET shared == RingCells(State', c) \cap RingCells(State', copyOf'[c])
                     IN  shared \cap Nodes = {}]_vars

IsPush == last'.op \in {"push_front", "push_back"}

\* C11: a push_front, push_back, emplace_front or emplace_back whose node
\* allocation or element construction fails reports the failure and leaves
\* the memory as it was: every size, every element and every link of
\* every sentinel and node.
C11_FailedPushChangesNothing ==
    [][(IsPush /\ last'.threw) => State' = State]_vars
C11_Witness ==
    /\ last.op = "push_back" /\ last.threw
    /\ size(State, last.d) > 0 /\ Traverse(State, last.d).ok

\* C12: a copy-assignment a = b onto a deque a that holds elements, in
\* which an allocation fails, reports the failure and leaves a with the
\* elements, in the order, it had before.
C12_FailedCopyAssignChangesNothing ==
    [][(last'.op = "copy_assign" /\ last'.threw /\ ~ub'
           /\ ~empty(State, last'.d) /\ Traverse(State, last'.d).ok) =>
          /\ Traverse(State', last'.d) = Traverse(State, last'.d)
          /\ size(State', last'.d) = size(State, last'.d)]_vars

\* C13: after a = b, also when a and b are the same object, a holds the
\* elements b held before, in the same order, in nodes that are not b's,
\* and b's elements are unchanged.
C13_CopyAssignCopies ==
    [][(last'.op = "copy_assign" /\ ~last'.threw /\ ~ub'
           /\ Traverse(State, last'.o).ok) =>
          /\ Traverse(State', last'.d) = Traverse(State, last'.o)
          /\ size(State', last'.d) = size(State, last'.o)
          /\ Traverse(State', last'.o) = Traverse(State, last'.o)
          /\ size(State', last'.o) = size(State, last'.o)
          /\ last'.d # last'.o =>
                 RingCells(State', last'.d) \cap RingCells(State', last'.o)
                    \cap Nodes = {}]_vars

\* The element sequence without its last element.
Front(es) == SubSeq(es, 1, Len(es) - 1)

\* C16: on a non-empty deque with elements [e1..en], pop_front() leaves
\* [e2..en] and pop_back() leaves [e1..e(n-1)]; each takes 1 from size(),
\* destroys the boundary node and no other, and links the new boundary cell
\* and this deque's sentinel to each other (the sentinel to itself on both
\* sides when n = 1).
C16_PopRemovesBoundary ==
    [][(last'.op \in {"pop_front", "pop_back"} /\ ~ub'
           /\ Traverse(State, last'.d).ok
           /\ Len(Traverse(State, last'.d).elems) = size(State, last'.d)) =>
          LET d == last'.d
              s == Sent(d)
              es == Traverse(State, d).elems
              atfront == last'.op = "pop_front"
              gone == IF atfront THEN head_(State, d) ELSE tail_(State, d)
          IN  /\ Traverse(State', d).ok
              /\ Traverse(State', d).elems = IF atfront THEN Tail(es) ELSE Front(es)
              /\ size(State', d) = size(State, d) - 1
              /\ gone \in alloc /\ alloc' = alloc \ {gone}
              /\ IF atfront THEN prev'[next'[s]] = s ELSE next'[prev'[s]] = s
              /\ size(State', d) = 0 => SelfLinked(State', d)]_vars

\* The deques whose ring, followed along next from the sentinel, meets n.
Owners(n) == {d \in LiveDeques : n \in RingCells(State, d)}
Destroyed == Nodes \ alloc

\* C17: as long as no operation has acted on a destroyed cell (so no node
\* was destroyed twice), every allocated node is reachable from exactly one
\* deque's sentinel, no sentinel or allocated node links to a destroyed
\* node, and when every deque is destroyed or empty no node is allocated.
C17_NodesOwnedOnce ==
    ~ub =>
       /\ \A n \in alloc : Cardinality(Owners(n)) = 1
       /\ \A c \in Cells : Valid(State, c) =>
              next[c] \notin Destroyed /\ prev[c] \notin Destroyed
       /\ (\A d \in LiveDeques : empty(State, d)) => alloc = {}

\* What a deque shows of itself: its sentinel's links, its size and its
\* traversal.
Shown(m, d) ==
    [next |-> m.next[Sent(d)], prev |-> m.prev[Sent(d)], size |-> size(m, d),
     walk |-> Traverse(m, d)]

\* The operations on one deque that keep a move on record.
OnOne == {"push_front", "push_back", "pop_front", "pop_back", "clear", "front", "back"}

\* C18: after a move from a into b (move construction, move assignment or
\* a swap with an empty side), a push, pop, clear or element assignment on
\* one of the two changes nothing of what the other shows.
C18_MovedAreIndependent ==
    [][(moved.a # 0 /\ moved' = moved /\ last'.op \in OnOne /\ ~ub') =>
          \A x \in {moved.a, moved.b} \ {last'.d} :
             Shown(State', x) = Shown(State, x)]_vars

\* The keys bound in the chain from curr, and the newest node binding key
\* (0 if there is none).
Bound(m, curr) == {m.key[n] : n \in chain(m, curr)}
Newest(m, curr, key) ==
    IF key \in Bound(m, curr)
    THEN CHOOSE n \in chain(m, curr) :
            /\ m.key[n] = key
            /\ \A k \in chain(m, curr) \ {n} : m.key[k] = key => k \in chain(m, m.next[n])
    ELSE 0
Found(v) == [threw |-> FALSE, value |-> v]
ExtendDone == env_last'.op = "extend" /\ ~env_last'.threw
UpdateDone == env_last'.op = "update" /\ ~env_last'.threw

\* C14: e.extend(k, v) returns an environment e2 with e2.lookup(k) = v and
\* e2.lookup(k2) as e.lookup(k2) for every other key k2, value or
\* binding_not_found alike; every lookup through e and through every other
\* handle gives what it gave before.
C14_ExtendShadows ==
    [][ExtendDone =>
          LET e == env_last'.e
              e2 == env_last'.to
              k == env_last'.key
          IN  /\ lookup(Env', env_head'[e2], k) = Found(env_last'.value)
              /\ \A k2 \in Keys \ {k} :
                     lookup(Env', env_head'[e2], k2) = lookup(Env, env_head[e], k2)
              /\ \A g \in Envs \ {e2} : \A k2 \in Keys :
                     lookup(Env', env_head'[g], k2) = lookup(Env, env_head[g], k2)]_vars
\* An extend into another handle that shadows an older binding of the key.
C14_Witness ==
    /\ env_last.op = "extend" /\ ~env_last.threw /\ env_last.e # env_last.to
    /\ env_last.key \in Bound(Env, env_head[env_last.e])
    /\ lookup(Env, env_head[env_last.e], env_last.key) # Found(env_last.value)

\* C15: lookup(k) and update(k, v) through a handle whose chain has no
\* binding of k (the empty environment too) end with binding_not_found,
\* and no binding of any environment has changed.
C15_MissingKeyThrows ==
    [][(env_last'.op \in {"lookup", "update"}
           /\ env_last'.key \notin Bound(Env, env_head[env_last'.e])) =>
          env_last'.threw /\ Env' = Env]_vars
\* A failed update through a handle that has bindings of other keys.
C15_Witness ==
    /\ env_last.op = "update" /\ env_last.threw
    /\ env_head[env_last.e] # 0

\* C19: a successful update(k, v) through a handle writes v into the
\* newest binding of k in its chain and nothing else: lookup(k) through
\* that handle gives v, and so it does through every handle whose newest
\* binding of k is that cell; every other lookup through any handle gives
\* what it gave before.
C19_UpdateNewestInPlace ==
    [][UpdateDone =>
          LET e == env_last'.e
              k == env_last'.key
              v == env_last'.value
              c == Newest(Env, env_head[e], k)
          IN  /\ c # 0
              /\ Env' = [Env EXCEPT !.value[c] = v]
              /\ lookup(Env', env_head'[e], k) = Found(v)
              /\ \A g \in Envs : \A k2 \in Keys :
                     lookup(Env', env_head'[g], k2) =
                        IF Newest(Env, env_head[g], k2) = c THEN Found(v)
                        ELSE lookup(Env, env_head[g], k2)]_vars
\* An update of a binding that shadows an older binding of the key and is
\* shared with a longer environment.
C19_Witness ==
    /\ env_last.op = "update" /\ ~env_last.threw
    /\ LET e == env_last.e
           c == Newest(Env, env_head[e], env_last.key)
       IN  /\ Newest(Env, node_next[c], env_last.key) # 0
           /\ node_value[Newest(Env, node_next[c], env_last.key)] # env_last.value
           /\ \E g \in Envs : env_head[g] # env_head[e]
                                /\ Newest(Env, env_head[g], env_last.key) = c
====
